---- MODULE Spec2Model ----
(***************************************************************************)
(* gh-download: download_file (src/gh_download/__init__.py) and the        *)
(* content fetch _perform_download_and_save it calls, as a state machine.  *)
(* The call stack of the recursive download_file is the sequence `stack`;  *)
(* every frame advances from one blocking I/O point to the next.           *)
(* The backoff policy and the blob fallback path, which the tests          *)
(* exercise, are separate specifications (SpecPolicy, SpecBlob).           *)
(***************************************************************************)
EXTENDS Naturals, Sequences, FiniteSets, TLC

\* ---------------------------------------------------------------- bounds
\* entries of one directory listing
MaxEntries == 2
\* metadata requests (repository nodes) of one top-level invocation
MaxNodes == 3
\* anomalies the environment injects in one invocation: a failed request or
\* local I/O call, a credential that changes or is lost, a listing item with
\* a missing field, a file descriptor without download_url
MaxFaults == 2
\* chunks of one response body
MaxChunks == 2
\* largest attempt index given to the backoff policy
MaxAttempt == 4
\* bytes of one git blob
MaxBlobLen == 4

VARIABLES
  stack,       \* call stack of download_file, innermost frame last
  dirs,        \* local directories that exist (paths are sequences of names)
  files,       \* local files that exist: path -> sequence of chunks
  tokenCalls,  \* invocations of get_github_token_from_gh_cli
  reqTokens,   \* tokens sent in the Authorization header of some request
  requests,    \* session.get calls issued
  faults,      \* anomalies injected so far
  cred,        \* the token `gh auth token` would print now
  nodes,       \* metadata requests issued or owed to listed entries
  done,        \* the top-level download_file has returned
  result,      \* its return value
  pol,         \* the backoff policy applied to one (attempt, status) input
  cli,         \* the command-line front end: position, arguments, exit code
  auth         \* get_github_token_from_gh_cli: position, commands run, result

vars == <<stack, dirs, files, tokenCalls, reqTokens, requests, faults, cred,
          nodes, done, result, pol, cli, auth>>

\* ------------------------------------------------------------ local paths
Name(p) == IF p = <<>> THEN "" ELSE p[Len(p)]
Parent(p) == IF p = <<>> THEN <<>> ELSE SubSeq(p, 1, Len(p) - 1)
Prefixes(p) == {SubSeq(p, 1, k) : k \in 0..Len(p)}

\* pathlib's PurePath.suffix is non-empty for these names
DottedNames == {"b.x", "d.y", "o.d"}
HasSuffix(p) == Name(p) \in DottedNames

NameOf(i) == CASE i = 1 -> "a" [] i = 2 -> "b.x" [] i = 3 -> "c" [] OTHER -> "d.y"

IsDir(p) == p \in dirs
IsFile(p) == p \in DOMAIN files
Exists(p) == IsDir(p) \/ IsFile(p)

Absent == [exists |-> FALSE, bytes |-> <<>>]
FileState(p) == IF IsFile(p) THEN [exists |-> TRUE, bytes |-> files[p]] ELSE Absent

\* the transfer-in-progress file next to p
TmpPath(p) == Parent(p) \o <<Name(p) \o ".tmp">>

RemoveFile(fs, p) == [q \in DOMAIN fs \ {p} |-> fs[q]]
PutFile(fs, p, bytes) == [q \in DOMAIN fs \cup {p} |-> IF q = p THEN bytes ELSE fs[q]]

\* the body every successful content response carries, and what an
\* earlier run may have left at the output path
Body == [i \in 1..MaxChunks |-> i]
OldBytes == <<0>>

\* ------------------------------------------------------- remote responses
NoToken == ""
Tokens == {"t1", "t2"}

NoFailure == [kind |-> "none", status |-> 0]
HttpError(s) == [kind |-> "http", status |-> s]
RequestStatuses == {401, 403, 404, 503}
\* what session.get / raise_for_status / response.json raise
RequestFailures ==
  {[kind |-> k, status |-> 0] : k \in {"connection", "timeout", "other"}}
    \cup {HttpError(s) : s \in RequestStatuses}
\* what response.iter_content raises in mid-stream
StreamFailure == [kind |-> "chunked", status |-> 0]
\* OSError of mkdir / open / write
IoFailure == [kind |-> "oserror", status |-> 0]

EntryKinds == {"file", "dir", "noname", "notype", "nopath"}
\* item i of the listing of repository path p
EntryAt(p, i, k) ==
  [name |-> IF k = "noname" THEN "" ELSE NameOf(i),
   type |-> IF k = "notype" THEN "" ELSE IF k = "dir" THEN "dir" ELSE "file",
   path |-> IF k = "nopath" THEN <<>> ELSE p \o <<NameOf(i)>>]

\* (a check of the name only)
WellFormed_nameonly(item) == item.name # ""

\* not (not item_type or not item_name or not item_path_in_repo)
WellFormed(item) == item.name # "" /\ item.type # "" /\ item.path # <<>>
CountWellFormed(items) == Cardinality({i \in DOMAIN items : WellFormed(items[i])})
CountMalformed(items) == Len(items) - CountWellFormed(items)

Listings(p, budget, anomalies) ==
  {l \in UNION {{[i \in 1..n |-> EntryAt(p, i, ks[i])] : ks \in [1..n -> EntryKinds]}
                  : n \in 0..MaxEntries}
     : CountWellFormed(l) <= budget /\ CountMalformed(l) <= anomalies}

NoInfo == [kind |-> "none", name |-> "", url |-> FALSE, entries |-> <<>>]
FileInfo(p, hasUrl) == [kind |-> "file", name |-> Name(p), url |-> hasUrl, entries |-> <<>>]
ListInfo(l) == [kind |-> "list", name |-> "", url |-> FALSE, entries |-> l]
OtherInfo(p) == [kind |-> "other", name |-> Name(p), url |-> FALSE, entries |-> <<>>]

\* the JSON bodies the contents endpoint can answer for path p
Responses(p, expect, budget, anomalies) ==
  (IF expect \in {"any", "file"} /\ p # <<>>
     THEN {FileInfo(p, u) : u \in {b \in BOOLEAN : b \/ anomalies > 0}} ELSE {})
  \cup (IF expect \in {"any", "dir"}
          THEN {ListInfo(l) : l \in Listings(p, budget, anomalies)} ELSE {})
  \cup (IF expect = "any" /\ p # <<>> THEN {OtherInfo(p)} ELSE {})

\* the anomalies a response carries
Anomalies(info) ==
  IF info.kind = "file" /\ ~info.url THEN 1 ELSE CountMalformed(info.entries)

\* ---------------------------------------------------------- backoff policy
\* (the retry helpers that tests/test_minimal_retry.py exercises)
RetryableStatuses == {404, 429, 500, 502, 503, 504}
NonRetryableStatuses == {400, 401, 403, 405, 422}

is_retryable_http_error_no404(hasResponse, status) ==
  hasResponse /\ status \in RetryableStatuses \ {404}

\* true when the HTTPError carries a response whose status is retryable
is_retryable_http_error(hasResponse, status) ==
  hasResponse /\ status \in RetryableStatuses

retry_delay_flat(attempt, status_code) == 2 ^ attempt

\* 2 ** attempt seconds, doubled for a 429
retry_delay(attempt, status_code) ==
  LET delay == 2 ^ attempt IN
  IF status_code = 429 THEN delay * 2 ELSE delay

\* a failure the backoff policy would retry
Retryable(e) ==
  \/ e.kind \in {"connection", "timeout", "chunked"}
  \/ e.kind = "http" /\ is_retryable_http_error(TRUE, e.status)

\* attempts of one logical transfer (the initial one and 2 retries)
MaxTransferAttempts == 3

\* ------------------------------------------------------------------ base64
\* bytes are 0..255, base64 characters are their 6-bit values 0..63, and
\* B64Pad stands for '='
B64Pad == 64
Sextets(n) == <<n \div 262144, (n \div 4096) % 64, (n \div 64) % 64, n % 64>>

\* one group of 1..3 bytes as 4 characters
EncodeGroup(g) ==
  LET n == g[1] * 65536 + (IF Len(g) > 1 THEN g[2] ELSE 0) * 256
             + (IF Len(g) > 2 THEN g[3] ELSE 0)
      c == Sextets(n)
  IN IF Len(g) = 3 THEN c
     ELSE IF Len(g) = 2 THEN <<c[1], c[2], c[3], B64Pad>>
     ELSE <<c[1], c[2], B64Pad, B64Pad>>

RECURSIVE b64encode(_)
\* base64.b64encode, what the blob endpoint puts in "content"
b64encode(bytes) ==
  IF bytes = <<>> THEN <<>>
  ELSE LET k == IF Len(bytes) < 3 THEN Len(bytes) ELSE 3 IN
       EncodeGroup(SubSeq(bytes, 1, k)) \o b64encode(SubSeq(bytes, k + 1, Len(bytes)))

\* one group of 4 characters as 1..3 bytes
DecodeGroup(c) ==
  LET v(i) == IF c[i] = B64Pad THEN 0 ELSE c[i]
      n == v(1) * 262144 + v(2) * 4096 + v(3) * 64 + v(4)
      pads == Cardinality({i \in 1..4 : c[i] = B64Pad})
  IN SubSeq(<<n \div 65536, (n \div 256) % 256, n % 256>>, 1, 3 - pads)

b64decode_raw(chars) == chars

RECURSIVE b64decode(_)
\* base64.b64decode
b64decode(chars) ==
  IF Len(chars) < 4 THEN <<>>
  ELSE DecodeGroup(SubSeq(chars, 1, 4)) \o b64decode(SubSeq(chars, 5, Len(chars)))

\* ------------------------------------------------------------------ frames
NewFrame(path, out, expect) ==
  [path |-> path, out |-> out, expect |-> expect, pc |-> "token",
   token |-> NoToken, info |-> NoInfo, target |-> <<>>,
   idx |-> 1, all_success |-> TRUE,
   visits |-> <<>>, attempts |-> <<>>, outcomes |-> <<>>, fetches |-> <<>>,
   tcalls |-> 0, mreqs |-> 0, merrs |-> <<>>, reported |-> 0,
   written |-> 0, reqs |-> 0, errs |-> <<>>, pre |-> Absent, ret |-> FALSE,
   sent |-> <<>>, slept |-> <<>>, opened |-> 0, open |-> 0]

Top == stack[Len(stack)]
SetTop(f) == [stack EXCEPT ![Len(stack)] = f]
Running == ~done /\ Len(stack) > 0
At(pc) == Running /\ Top.pc = pc
CanFail == faults < MaxFaults

\* `return v` of download_file
Returning(f, v) == [f EXCEPT !.pc = "ret", !.ret = v]
\* `return v` of _perform_download_and_save
\* (leaving `with requests.Session() as session:` closes the session)
Fetched(f, v) == [f EXCEPT !.pc = "pd_done", !.ret = v, !.open = 0]

\* ----------------------------------------------------- local file system
\* Path.mkdir(parents=True, exist_ok=True): raises OSError when a component
\* is a file; an injected OSError strikes at one missing component, the
\* components above it having been created
MkdirOutcomes(p) ==
  IF \E q \in Prefixes(p) : IsFile(q)
    THEN {[ok |-> FALSE, dirs |-> dirs, fault |-> FALSE]}
    ELSE {[ok |-> TRUE, dirs |-> dirs \cup Prefixes(p), fault |-> FALSE]}
           \cup {[ok |-> FALSE,
                  dirs |-> dirs \cup {SubSeq(p, 1, j) : j \in 0..(k - 1)},
                  fault |-> TRUE]
                   : k \in {i \in 1..Len(p) : SubSeq(p, 1, i) \notin dirs}}

FinalFileOutputPath(out, file_name) ==
  IF IsDir(out) \/ (~Exists(out) /\ Name(out) # file_name /\ ~HasSuffix(out))
    THEN out \o <<file_name>>
    ELSE out

TargetDirBase(path, out) ==
  IF path # <<>> /\ ~HasSuffix(out) /\ (IsDir(out) \/ ~Exists(out))
    THEN out \o <<Name(path)>>
    ELSE out

\* ------------------------------------------------------------ download_file
\* (a handler that would go on without a token)
NoTokenOutcome_anonymous(f) == [f EXCEPT !.pc = "meta"]

\* if not token: return False
NoTokenOutcome(f) == Returning(f, FALSE)

\* token = get_github_token_from_gh_cli(); if not token: return False
GetToken ==
  /\ At("token")
  /\ \E t \in Tokens \cup {NoToken} :
       /\ t # cred => CanFail
       /\ faults' = IF t # cred THEN faults + 1 ELSE faults
       /\ cred' = t
       /\ stack' = SetTop(LET f == [Top EXCEPT !.tcalls = @ + 1] IN
                          IF t = NoToken
                            THEN NoTokenOutcome(f)
                            ELSE [f EXCEPT !.token = t, !.pc = "meta"])
  /\ tokenCalls' = tokenCalls + 1
  /\ UNCHANGED <<dirs, files, reqTokens, requests, nodes, done, result, pol, cli, auth>>

\* (a handler that would ask for the metadata again)
Unexpected_retry(g) ==
  IF g.mreqs < 3 THEN [g EXCEPT !.pc = "meta"] ELSE Returning(g, FALSE)

\* content_info is neither a file object nor a list: return False
Unexpected(g) == Returning(g, FALSE)

\* the branch taken on content_info, up to the next mkdir
Dispatch(f, info) ==
  LET g == [f EXCEPT !.info = info] IN
  IF info.kind = "file"
    THEN IF ~info.url
           THEN Returning(g, FALSE)
           ELSE [g EXCEPT !.target = FinalFileOutputPath(f.out, info.name),
                          !.pc = "file_mkdir"]
    ELSE IF info.kind = "list"
           THEN [g EXCEPT !.target = TargetDirBase(f.path, f.out),
                          !.pc = "dir_mkdir",
                          !.visits = [i \in DOMAIN info.entries |-> 0],
                          !.attempts = [i \in DOMAIN info.entries |-> 0],
                          !.outcomes = [i \in DOMAIN info.entries |-> "none"],
                          !.fetches = [i \in DOMAIN info.entries |-> 0]]
           ELSE Unexpected(g)

\* (a handler that would ask once more)
MetaFailure_twice(e, frame) ==
  IF frame.mreqs < 2
    THEN [frame EXCEPT !.merrs = Append(@, e), !.pc = "meta"]
    ELSE Returning([frame EXCEPT !.merrs = Append(@, e), !.reported = @ + 1], FALSE)

\* (a handler that would ask again, up to three requests)
MetaFailure_retry(e, frame) ==
  IF frame.mreqs < 3
    THEN [frame EXCEPT !.merrs = Append(@, e), !.pc = "meta"]
    ELSE Returning([frame EXCEPT !.merrs = Append(@, e), !.reported = @ + 1], FALSE)

\* except RequestException as e: _handle_download_errors(e, ...); return False
MetaFailure(e, frame) ==
  Returning([frame EXCEPT !.merrs = Append(@, e), !.reported = @ + 1], FALSE)

MetadataTimeout == 30
ContentTimeout == 60

\* session.get(metadata_api_url, headers=common_headers, timeout=30)
MetadataRequest(f) ==
  [url |-> [endpoint |-> "contents", path |-> f.path],
   authorization |-> <<"token", f.token>>,
   accept |-> "application/vnd.github.v3+json",
   timeout |-> MetadataTimeout]

\* (the file asked from the contents endpoint in raw form)
ContentRequest_raw(f) ==
  [url |-> [endpoint |-> "contents", path |-> f.path],
   authorization |-> <<"token", f.token>>,
   accept |-> "application/vnd.github.v3.raw",
   timeout |-> MetadataTimeout]

\* session.get(download_url, headers=raw_download_headers, timeout=60,
\* stream=True), download_url being the one of the metadata of f.path
ContentRequest(f) ==
  [url |-> [endpoint |-> "download_url", path |-> f.path],
   authorization |-> <<"token", f.token>>,
   accept |-> "application/octet-stream",
   timeout |-> ContentTimeout]

\* with requests.Session() as session: session.get(metadata_api_url);
\* raise_for_status(); response.json() -- the session is closed when the
\* block is left, by the return of json() or by the exception
FetchMetadata ==
  /\ At("meta")
  /\ requests' = requests + 1
  /\ reqTokens' = reqTokens \cup {Top.token}
  /\ \/ \E f \in RequestFailures :
          /\ CanFail
          /\ faults' = faults + 1
          /\ nodes' = nodes
          /\ stack' = SetTop(MetaFailure(f, [Top EXCEPT !.mreqs = @ + 1,
                                                         !.opened = @ + 1,
                                                         !.sent = Append(@, MetadataRequest(Top))]))
     \* (one response carries at most one anomaly)
     \/ \E info \in Responses(Top.path, Top.expect, MaxNodes - nodes,
                              IF CanFail THEN 1 ELSE 0) :
          /\ faults' = faults + Anomalies(info)
          /\ nodes' = nodes + CountWellFormed(info.entries)
          /\ stack' = SetTop(Dispatch([Top EXCEPT !.mreqs = @ + 1,
                                                   !.opened = @ + 1,
                                                   !.sent = Append(@, MetadataRequest(Top))],
                                      info))
  /\ UNCHANGED <<dirs, files, tokenCalls, cred, done, result, pol, cli, auth>>

\* final_file_output_path.parent.mkdir(parents=True, exist_ok=True), then the
\* call of _perform_download_and_save
FileMkdir ==
  /\ At("file_mkdir")
  /\ \E o \in MkdirOutcomes(Parent(Top.target)) :
       /\ o.fault => CanFail
       /\ faults' = IF o.fault THEN faults + 1 ELSE faults
       /\ dirs' = o.dirs
       /\ stack' = SetTop(IF o.ok
                            THEN [Top EXCEPT !.pc = "pd_mkdir",
                                             !.pre = FileState(Top.target)]
                            ELSE Returning(Top, FALSE))
  /\ UNCHANGED <<files, tokenCalls, reqTokens, requests, cred, nodes, done, result, pol, cli, auth>>

\* (a handler that would go through the listing whatever mkdir did)
AfterDirMkdir_anyway(ok, f) == [f EXCEPT !.pc = "loop"]

\* except OSError: return False; otherwise the loop over content_info starts
AfterDirMkdir(ok, f) == IF ok THEN [f EXCEPT !.pc = "loop"] ELSE Returning(f, FALSE)

\* target_dir_base.mkdir(parents=True, exist_ok=True)
DirMkdir ==
  /\ At("dir_mkdir")
  /\ \E o \in MkdirOutcomes(Top.target) :
       /\ o.fault => CanFail
       /\ faults' = IF o.fault THEN faults + 1 ELSE faults
       /\ dirs' = o.dirs
       /\ stack' = SetTop(AfterDirMkdir(o.ok, Top))
  /\ UNCHANGED <<files, tokenCalls, reqTokens, requests, cred, nodes, done, result, pol, cli, auth>>

\* ------------------------------------------- _perform_download_and_save
\* output_path.parent.mkdir(parents=True, exist_ok=True)
PdMkdir ==
  /\ At("pd_mkdir")
  /\ \E o \in MkdirOutcomes(Parent(Top.target)) :
       /\ o.fault => CanFail
       /\ faults' = IF o.fault THEN faults + 1 ELSE faults
       /\ dirs' = o.dirs
       /\ stack' = SetTop(IF o.ok
                            THEN [Top EXCEPT !.pc = "pd_get"]
                            ELSE Fetched([Top EXCEPT !.errs = Append(@, IoFailure)], FALSE))
  /\ UNCHANGED <<files, tokenCalls, reqTokens, requests, cred, nodes, done, result, pol, cli, auth>>

\* (a handler that would start another attempt whatever the failure)
AfterFailure_retry(f, frame) ==
  IF frame.reqs < 3
    THEN [frame EXCEPT !.errs = Append(@, f), !.pc = "pd_get"]
    ELSE Fetched([frame EXCEPT !.errs = Append(@, f)], FALSE)

\* (a handler that would ask once more after a 404)
AfterFailure_retry404(f, frame) ==
  IF f = HttpError(404) /\ frame.reqs < 2
    THEN [frame EXCEPT !.errs = Append(@, f), !.pc = "pd_get"]
    ELSE Fetched([frame EXCEPT !.errs = Append(@, f)], FALSE)

\* what the function does when an attempt has raised f
AfterFailure(f, frame) == Fetched([frame EXCEPT !.errs = Append(@, f)], FALSE)

\* with requests.Session() as session: session.get(download_url,
\* stream=True); response.raise_for_status()
PdGet ==
  /\ At("pd_get")
  /\ requests' = requests + 1
  /\ reqTokens' = reqTokens \cup {Top.token}
  /\ LET f == [Top EXCEPT !.reqs = @ + 1, !.sent = Append(@, ContentRequest(Top)),
                           !.opened = @ + 1, !.open = 1] IN
       \/ \E e \in RequestFailures :
            /\ CanFail
            /\ faults' = faults + 1
            /\ stack' = SetTop(AfterFailure(e, f))
       \/ /\ faults' = faults
          /\ stack' = SetTop([f EXCEPT !.pc = "pd_open"])
  /\ UNCHANGED <<dirs, files, tokenCalls, cred, nodes, done, result, pol, cli, auth>>

\* the path the response body is written to
WritePath(frame) == frame.target

\* output_path.open("wb")
PdOpen ==
  /\ At("pd_open")
  /\ \/ /\ ~IsDir(WritePath(Top))
        /\ files' = PutFile(files, WritePath(Top), <<>>)
        /\ faults' = faults
        /\ stack' = SetTop([Top EXCEPT !.pc = "pd_write", !.written = 0])
     \/ /\ IsDir(WritePath(Top)) \/ CanFail
        /\ files' = files
        /\ faults' = IF IsDir(WritePath(Top)) THEN faults ELSE faults + 1
        /\ stack' = SetTop(AfterFailure(IoFailure, Top))
  /\ UNCHANGED <<dirs, tokenCalls, reqTokens, requests, cred, nodes, done, result, pol, cli, auth>>

\* one round of `for chunk in response.iter_content(): f.write(chunk)`
PdWrite ==
  /\ At("pd_write")
  /\ Top.written < Len(Body)
  /\ \/ /\ files' = PutFile(files, WritePath(Top),
                            Append(files[WritePath(Top)], Body[Top.written + 1]))
        /\ faults' = faults
        /\ stack' = SetTop([Top EXCEPT !.written = @ + 1])
     \/ \E e \in {StreamFailure, IoFailure} :
          /\ CanFail
          /\ files' = files
          /\ faults' = faults + 1
          /\ stack' = SetTop(AfterFailure(e, Top))
  /\ UNCHANGED <<dirs, tokenCalls, reqTokens, requests, cred, nodes, done, result, pol, cli, auth>>

\* the iterator is exhausted: the file is closed and True returned
PdFinish ==
  /\ At("pd_write")
  /\ Top.written = Len(Body)
  /\ stack' = SetTop(Fetched(Top, TRUE))
  /\ UNCHANGED <<dirs, files, tokenCalls, reqTokens, requests, faults, cred,
                 nodes, done, result, pol, cli, auth>>

\* download_file returns what _perform_download_and_save returned
PdReturn ==
  /\ At("pd_done")
  /\ stack' = SetTop(Returning(Top, Top.ret))
  /\ UNCHANGED <<dirs, files, tokenCalls, reqTokens, requests, faults, cred,
                 nodes, done, result, pol, cli, auth>>

\* ----------------------------------------------- the loop over content_info
Aggregate_last(all_success, success) == success

Aggregate_none(all_success, success) == all_success

\* all_success after a child returned success
Aggregate(all_success, success) == IF ~success THEN FALSE ELSE all_success

NextItem_break(idx, n, success) == IF success THEN idx + 1 ELSE n + 1

\* the index of the item the loop takes after item idx of n returned success
NextItem(idx, n, success) == idx + 1

ItemOf_reversed(entries, idx) == entries[Len(entries) + 1 - idx]

\* `for item in content_info`: the item of iteration idx
ItemOf(entries, idx) == entries[idx]

\* an item with missing info: all_success = False; continue
LoopSkip ==
  /\ At("loop")
  /\ Top.idx <= Len(Top.info.entries)
  /\ ~WellFormed(ItemOf(Top.info.entries, Top.idx))
  /\ stack' = SetTop([Top EXCEPT !.all_success = FALSE,
                                 !.visits[Top.idx] = @ + 1,
                                 !.outcomes[Top.idx] = "skipped",
                                 !.idx = NextItem(Top.idx, Len(Top.info.entries), FALSE)])
  /\ UNCHANGED <<dirs, files, tokenCalls, reqTokens, requests, faults, cred,
                 nodes, done, result, pol, cli, auth>>

\* success = download_file(file_path=item_path_in_repo, output_path=target_dir_base)
LoopCall ==
  /\ At("loop")
  /\ Top.idx <= Len(Top.info.entries)
  /\ WellFormed(ItemOf(Top.info.entries, Top.idx))
  /\ LET item == ItemOf(Top.info.entries, Top.idx) IN
       stack' = Append(SetTop([Top EXCEPT !.pc = "call",
                                          !.visits[Top.idx] = @ + 1,
                                          !.attempts[Top.idx] = @ + 1]),
                       NewFrame(item.path, Top.target, item.type))
  /\ UNCHANGED <<dirs, files, tokenCalls, reqTokens, requests, faults, cred,
                 nodes, done, result, pol, cli, auth>>

\* return all_success
LoopEnd ==
  /\ At("loop")
  /\ Top.idx > Len(Top.info.entries)
  /\ stack' = SetTop(Returning(Top, Top.all_success))
  /\ UNCHANGED <<dirs, files, tokenCalls, reqTokens, requests, faults, cred,
                 nodes, done, result, pol, cli, auth>>

\* a recursive call returns into the loop of its caller
ReturnToLoop ==
  /\ At("ret")
  /\ Len(stack) > 1
  /\ LET caller == stack[Len(stack) - 1]
         success == Top.ret
         n == Len(caller.info.entries)
     IN stack' = [SubSeq(stack, 1, Len(stack) - 1) EXCEPT ![Len(stack) - 1] =
                    [caller EXCEPT !.pc = "loop",
                                   !.all_success = Aggregate(@, success),
                                   !.outcomes[caller.idx] = IF success THEN "ok" ELSE "fail",
                                   !.fetches[caller.idx] = Top.reqs,
                                   !.opened = @ + Top.opened,
                                   !.idx = NextItem(caller.idx, n, success)]]
  /\ UNCHANGED <<dirs, files, tokenCalls, reqTokens, requests, faults, cred,
                 nodes, done, result, pol, cli, auth>>

\* the top-level call returns to the CLI
ReturnTop ==
  /\ At("ret")
  /\ Len(stack) = 1
  /\ done' = TRUE
  /\ result' = Top.ret
  /\ UNCHANGED <<stack, dirs, files, tokenCalls, reqTokens, requests, faults, cred, nodes, pol, cli, auth>>

\* ------------------------------------------------------------ specification
TopPaths == {<<>>, <<"a">>, <<"b.x">>}
OutPaths == {<<"out">>, <<"o.d">>}
AuthIdle == [pc |-> "idle", cmds |-> <<>>, outs |-> <<>>, asked |-> <<>>,
             gh |-> FALSE, printed |-> <<>>, raised |-> FALSE, ret |-> <<>>,
             isNone |-> TRUE]
PolIdle == [pc |-> "idle", attempt |-> 0, hasResponse |-> FALSE, status |-> 0,
            retryable |-> FALSE, delay |-> 0]

\* ------------------------------------------------- the command-line entry
\* (gh_download.cli, the `app` that main() runs and tests/test_ghdl.py drives)
CliIdle == [pc |-> "idle", path |-> <<>>, out |-> <<>>, code |-> 0]

ExitCode_zero(success) == 0

\* raise typer.Exit(code=1) unless download_file returned True
ExitCode(success) == IF success THEN 0 ELSE 1

\* the output's parent directory is made, then download_file is called; an
\* OSError of the mkdir ends the command without the call
CliStart ==
  /\ cli.pc = "start"
  /\ \/ /\ stack' = <<NewFrame(cli.path, cli.out, "any")>>
        /\ cli' = [cli EXCEPT !.pc = "call"]
        /\ faults' = faults
     \/ /\ CanFail
        /\ stack' = stack
        /\ cli' = [cli EXCEPT !.pc = "exit", !.code = ExitCode(FALSE)]
        /\ faults' = faults + 1
  /\ UNCHANGED <<dirs, files, tokenCalls, reqTokens, requests, cred, nodes, done,
                 result, pol, auth>>

\* download_file has returned: the command exits
CliExit ==
  /\ cli.pc = "call"
  /\ done
  /\ cli' = [cli EXCEPT !.pc = "exit", !.code = ExitCode(result)]
  /\ UNCHANGED <<stack, dirs, files, tokenCalls, reqTokens, requests, faults, cred,
                 nodes, done, result, pol, auth>>

Init ==
  /\ \E p \in TopPaths, o \in OutPaths :
       cli = [pc |-> "start", path |-> p, out |-> o, code |-> 0]
  /\ stack = <<>>
  /\ \E was \in {"absent", "dir", "file"} :
       /\ dirs = IF was = "dir" THEN {<<>>, cli.out} ELSE {<<>>}
       /\ files = IF was = "file" THEN [q \in {cli.out} |-> OldBytes] ELSE <<>>
  /\ tokenCalls = 0
  /\ reqTokens = {}
  /\ requests = 0
  /\ faults = 0
  /\ cred = "t1"
  /\ nodes = 1
  /\ done = FALSE
  /\ result = FALSE
  /\ pol = PolIdle
  /\ auth = AuthIdle

Next ==
  \/ CliStart
  \/ GetToken
  \/ FetchMetadata
  \/ FileMkdir
  \/ DirMkdir
  \/ PdMkdir
  \/ PdGet
  \/ PdOpen
  \/ PdWrite
  \/ PdFinish
  \/ PdReturn
  \/ LoopSkip
  \/ LoopCall
  \/ LoopEnd
  \/ ReturnToLoop
  \/ ReturnTop
  \/ CliExit

Spec == Init /\ [][Next]_vars

\* --------------------------------------- the backoff policy on its inputs
PolicyStatuses == RetryableStatuses \cup NonRetryableStatuses \cup {200}

InitPolicy ==
  /\ stack = <<>>
  /\ dirs = {<<>>}
  /\ files = <<>>
  /\ tokenCalls = 0
  /\ reqTokens = {}
  /\ requests = 0
  /\ faults = 0
  /\ cred = "t1"
  /\ nodes = 0
  /\ done = TRUE
  /\ result = FALSE
  /\ cli = CliIdle
  /\ auth = AuthIdle
  /\ \E n \in 0..MaxAttempt, r \in BOOLEAN, s \in PolicyStatuses :
       pol = [PolIdle EXCEPT !.pc = "input", !.attempt = n, !.hasResponse = r,
                             !.status = IF r THEN s ELSE 0]

\* the handler of a failed attempt asks the policy
ApplyPolicy ==
  /\ pol.pc = "input"
  /\ pol' = [pol EXCEPT !.pc = "applied",
                        !.retryable = is_retryable_http_error(pol.hasResponse, pol.status),
                        !.delay = retry_delay(pol.attempt, pol.status)]
  /\ UNCHANGED <<stack, dirs, files, tokenCalls, reqTokens, requests, faults, cred,
                 nodes, done, result, cli, auth>>

NextPolicy == ApplyPolicy

SpecPolicy == InitPolicy /\ [][NextPolicy]_vars

\* --------------------------------------------------- the blob fallback path
\* (_download_via_blob_api, which tests/test_minimal_retry.py exercises:
\* GET /repos/{owner}/{repo}/git/blobs/{sha}, decode, write atomically)
BlobBytes == {0, 104, 255}
Blobs == UNION {[1..n -> BlobBytes] : n \in 0..MaxBlobLen}
Encodings == {"base64", "utf-8"}
BlobFailures == RequestFailures \cup {HttpError(429)}
BlobTarget == <<"out", "a">>

BlobFrame(blob, encoding, pre) ==
  [pc |-> "bl_get", target |-> BlobTarget, token |-> "t1",
   blob |-> blob, encoding |-> encoding, content |-> <<>>, got |-> FALSE,
   decoded |-> <<>>, reqs |-> 0, errs |-> <<>>, slept |-> <<>>,
   pre |-> pre, ret |-> FALSE]

BlobReturns(f, v) == [f EXCEPT !.pc = "bl_done", !.ret = v]

\* (a handler that gives up after the first failure)
BlobAfterFailure_once(e, frame) ==
  BlobReturns([frame EXCEPT !.errs = Append(@, e)], FALSE)

\* a failed attempt: sleep and ask again while the policy allows it
BlobAfterFailure(e, frame) ==
  LET g == [frame EXCEPT !.errs = Append(@, e)] IN
  IF Retryable(e) /\ frame.reqs < MaxTransferAttempts
    THEN [g EXCEPT !.slept = Append(@, retry_delay(frame.reqs - 1, e.status)),
                   !.pc = "bl_get"]
    ELSE BlobReturns(g, FALSE)

\* session.get(blob url); raise_for_status(); response.json()
BlobGet ==
  /\ At("bl_get")
  /\ requests' = requests + 1
  /\ reqTokens' = reqTokens \cup {Top.token}
  /\ LET f == [Top EXCEPT !.reqs = @ + 1] IN
       \/ \E e \in BlobFailures : stack' = SetTop(BlobAfterFailure(e, f))
       \/ stack' = SetTop([f EXCEPT !.got = TRUE,
                                     !.content = IF f.encoding = "base64"
                                                   THEN b64encode(f.blob) ELSE f.blob,
                                     !.pc = "bl_decode"])
  /\ UNCHANGED <<dirs, files, tokenCalls, faults, cred, nodes, done, result, pol, cli, auth>>

\* only "base64" is decoded; any other encoding fails at once
BlobDecode ==
  /\ At("bl_decode")
  /\ stack' = SetTop(IF Top.encoding = "base64"
                       THEN [Top EXCEPT !.decoded = b64decode(Top.content),
                                        !.pc = "bl_write"]
                       ELSE BlobReturns(Top, FALSE))
  /\ UNCHANGED <<dirs, files, tokenCalls, reqTokens, requests, faults, cred,
                 nodes, done, result, pol, cli, auth>>

\* the decoded bytes go to the temporary file; an OSError discards it
BlobWrite ==
  /\ At("bl_write")
  /\ \/ /\ files' = PutFile(files, TmpPath(Top.target), Top.decoded)
        /\ faults' = faults
        /\ stack' = SetTop([Top EXCEPT !.pc = "bl_rename"])
     \/ /\ CanFail
        /\ files' = files
        /\ faults' = faults + 1
        /\ stack' = SetTop(BlobReturns([Top EXCEPT !.errs = Append(@, IoFailure)], FALSE))
  /\ UNCHANGED <<dirs, tokenCalls, reqTokens, requests, cred, nodes, done, result, pol, cli, auth>>

\* the temporary file is renamed onto the destination
BlobRename ==
  /\ At("bl_rename")
  /\ files' = RemoveFile(PutFile(files, Top.target, files[TmpPath(Top.target)]),
                         TmpPath(Top.target))
  /\ stack' = SetTop(BlobReturns(Top, TRUE))
  /\ UNCHANGED <<dirs, tokenCalls, reqTokens, requests, faults, cred, nodes,
                 done, result, pol, cli, auth>>

BlobReturn ==
  /\ At("bl_done")
  /\ done' = TRUE
  /\ result' = Top.ret
  /\ UNCHANGED <<stack, dirs, files, tokenCalls, reqTokens, requests, faults, cred,
                 nodes, pol, cli, auth>>

InitBlob ==
  /\ \E blob \in Blobs, encoding \in Encodings, was \in {"absent", "file"} :
       /\ files = IF was = "file" THEN [q \in {BlobTarget} |-> OldBytes] ELSE <<>>
       /\ stack = <<BlobFrame(blob, encoding,
                              IF was = "file" THEN [exists |-> TRUE, bytes |-> OldBytes]
                                              ELSE Absent)>>
  /\ dirs = {<<>>, Parent(BlobTarget)}
  /\ tokenCalls = 0
  /\ reqTokens = {}
  /\ requests = 0
  /\ faults = 0
  /\ cred = "t1"
  /\ nodes = 0
  /\ done = FALSE
  /\ result = FALSE
  /\ pol = PolIdle
  /\ cli = CliIdle
  /\ auth = AuthIdle

NextBlob ==
  \/ BlobGet
  \/ BlobDecode
  \/ BlobWrite
  \/ BlobRename
  \/ BlobReturn

SpecBlob == InitBlob /\ [][NextBlob]_vars

\* ------------------------------------------ get_github_token_from_gh_cli
\* (the credential provider: every subprocess.run is one step, its outcome
\* chosen by the environment; auth.cmds is the list of commands run)
GhVersion == "gh --version"
GhStatus == "gh auth status"
GhLogin == "gh auth login"
GhToken == "gh auth token"

Whitespace == {" ", "\n"}
\* what `gh auth token` prints is the token and a newline
PrintedTokens == {<<"a">>, <<"a", "b">>, <<>>}

RECURSIVE lstrip(_)
lstrip(s) == IF s # <<>> /\ Head(s) \in Whitespace THEN lstrip(Tail(s)) ELSE s

RECURSIVE rstrip(_)
rstrip(s) ==
  IF s # <<>> /\ s[Len(s)] \in Whitespace THEN rstrip(SubSeq(s, 1, Len(s) - 1)) ELSE s

strip_none(s) == s

\* str.strip()
strip(s) == rstrip(lstrip(s))

Ran(a, cmd, out) == [a EXCEPT !.cmds = Append(@, cmd), !.outs = Append(@, out)]
AuthReturns(a, isNone, token) ==
  [a EXCEPT !.pc = "done", !.isNone = isNone, !.ret = token]
AuthNone(a) == AuthReturns(a, TRUE, <<>>)

\* "Logged in to github.com account" in stdout; an error of the command or
\* any other output is "not authenticated"
StatusOutcomes == {"logged_in", "not_logged_in", "oserror"}
check_gh_auth_status(out) == out = "logged_in"

\* shutil.which("gh")
AuthWhich ==
  /\ auth.pc = "which"
  /\ \E found \in BOOLEAN :
       auth' = IF found THEN [auth EXCEPT !.gh = TRUE, !.pc = "version"]
                        ELSE AuthNone(auth)
  /\ UNCHANGED <<stack, dirs, files, tokenCalls, reqTokens, requests, faults, cred,
                 nodes, done, result, pol, cli>>

\* gh --version, check=True: FileNotFoundError returns None, a non-zero exit
\* is only warned about, any other OSError is not handled here and the call
\* is outside the try of get_github_token_from_gh_cli
AuthVersion ==
  /\ auth.pc = "version"
  /\ \E out \in {"ok", "notfound", "nonzero", "oserror"} :
       LET a == Ran(auth, GhVersion, out) IN
       auth' = CASE out = "notfound" -> AuthNone(a)
                 [] out = "oserror" -> [AuthNone(a) EXCEPT !.raised = TRUE]
                 [] OTHER -> [a EXCEPT !.pc = "status1"]
  /\ UNCHANGED <<stack, dirs, files, tokenCalls, reqTokens, requests, faults, cred,
                 nodes, done, result, pol, cli>>

\* _handle_gh_authentication_status: the first gh auth status
AuthStatus ==
  /\ auth.pc = "status1"
  /\ \E out \in StatusOutcomes :
       auth' = [Ran(auth, GhStatus, out) EXCEPT
                  !.pc = IF check_gh_auth_status(out) THEN "token" ELSE "confirm"]
  /\ UNCHANGED <<stack, dirs, files, tokenCalls, reqTokens, requests, faults, cred,
                 nodes, done, result, pol, cli>>

\* (a prompt whose answer is not looked at)
AfterConfirm_always(a, yes) == [a EXCEPT !.pc = "which2"]

\* if Confirm.ask(...): run_gh_auth_login() ... else: return False
AfterConfirm(a, yes) == IF yes THEN [a EXCEPT !.pc = "which2"] ELSE AuthNone(a)

AuthConfirm ==
  /\ auth.pc = "confirm"
  /\ \E yes \in BOOLEAN :
       auth' = AfterConfirm([auth EXCEPT !.asked = Append(@, yes)], yes)
  /\ UNCHANGED <<stack, dirs, files, tokenCalls, reqTokens, requests, faults, cred,
                 nodes, done, result, pol, cli>>

\* run_gh_auth_login looks the executable up again
AuthLoginWhich ==
  /\ auth.pc = "which2"
  /\ \E found \in BOOLEAN :
       auth' = IF found THEN [auth EXCEPT !.pc = "login"] ELSE AuthNone(auth)
  /\ UNCHANGED <<stack, dirs, files, tokenCalls, reqTokens, requests, faults, cred,
                 nodes, done, result, pol, cli>>

\* gh auth login --hostname github.com --web, check=False: the exit code is
\* only reported; an exception of the command is a failed login
AuthLogin ==
  /\ auth.pc = "login"
  /\ \E out \in {"ok", "nonzero", "notfound", "oserror"} :
       LET a == Ran(auth, GhLogin, out) IN
       auth' = IF out \in {"ok", "nonzero"} THEN [a EXCEPT !.pc = "status2"]
                                              ELSE AuthNone(a)
  /\ UNCHANGED <<stack, dirs, files, tokenCalls, reqTokens, requests, faults, cred,
                 nodes, done, result, pol, cli>>

\* _perform_gh_login_and_verify: gh auth status after the login
AuthVerify ==
  /\ auth.pc = "status2"
  /\ \E out \in StatusOutcomes :
       LET a == Ran(auth, GhStatus, out) IN
       auth' = IF check_gh_auth_status(out) THEN [a EXCEPT !.pc = "status3"]
                                            ELSE AuthNone(a)
  /\ UNCHANGED <<stack, dirs, files, tokenCalls, reqTokens, requests, faults, cred,
                 nodes, done, result, pol, cli>>

\* (a handler that trusts the login helper)
AfterRecheck_trusting(a, out) == [a EXCEPT !.pc = "token"]

\* if not _check_gh_auth_status(gh_executable): return False
AfterRecheck(a, out) ==
  IF check_gh_auth_status(out) THEN [a EXCEPT !.pc = "token"] ELSE AuthNone(a)

\* _handle_gh_authentication_status checks once more before it reports
\* success
AuthRecheck ==
  /\ auth.pc = "status3"
  /\ \E out \in StatusOutcomes :
       auth' = AfterRecheck(Ran(auth, GhStatus, out), out)
  /\ UNCHANGED <<stack, dirs, files, tokenCalls, reqTokens, requests, faults, cred,
                 nodes, done, result, pol, cli>>

\* _retrieve_gh_auth_token: gh auth token, check=True; stdout.strip() is the
\* token; CalledProcessError returns None, any other exception is caught by
\* the caller's `except Exception` and returns None
AuthToken ==
  /\ auth.pc = "token"
  /\ \/ \E t \in PrintedTokens :
          auth' = AuthReturns([Ran(auth, GhToken, "ok") EXCEPT !.printed = t],
                              FALSE, strip(t \o <<"\n">>))
     \/ \E out \in {"nonzero", "oserror"} :
          auth' = AuthNone(Ran(auth, GhToken, out))
  /\ UNCHANGED <<stack, dirs, files, tokenCalls, reqTokens, requests, faults, cred,
                 nodes, done, result, pol, cli>>

InitAuth ==
  /\ stack = <<>>
  /\ dirs = {<<>>}
  /\ files = <<>>
  /\ tokenCalls = 1
  /\ reqTokens = {}
  /\ requests = 0
  /\ faults = 0
  /\ cred = "t1"
  /\ nodes = 0
  /\ done = FALSE
  /\ result = FALSE
  /\ pol = PolIdle
  /\ cli = CliIdle
  /\ auth = [AuthIdle EXCEPT !.pc = "which"]

NextAuth ==
  \/ AuthWhich
  \/ AuthVersion
  \/ AuthStatus
  \/ AuthConfirm
  \/ AuthLoginWhich
  \/ AuthLogin
  \/ AuthVerify
  \/ AuthRecheck
  \/ AuthToken

SpecAuth == InitAuth /\ [][NextAuth]_vars

\* ------------------------------------------------------------------ claims
InFetch(f) == f.pc \in {"pd_mkdir", "pd_get", "pd_open", "pd_write", "pd_done"}

AllRetryable(errs) == \A i \in DOMAIN errs : Retryable(errs[i])

\* C1: at every point of a content fetch the file at the final path is absent,
\* or holds the complete body of a successful response (or is the file that
\* was there before the fetch began): no truncated file is ever observable.
C1_AtomicDestination ==
  \A k \in DOMAIN stack :
    InFetch(stack[k]) =>
      LET st == FileState(stack[k].target) IN
        ~st.exists \/ st.bytes = Body \/ st = stack[k].pre

\* C2: when the content fetch has returned failure (and no file was at the
\* destination before), neither the destination nor destination + ".tmp"
\* exists.
C2_NothingLeftAfterFailure ==
  (At("pd_done") /\ ~Top.ret /\ ~Top.pre.exists) =>
    ~IsFile(Top.target) /\ ~IsFile(TmpPath(Top.target))

\* C3: a content fetch that met only retryable failures, at most 2 of them,
\* ends with a successful attempt: it returns success, has issued
\* failures + 1 requests, and the destination holds exactly the body.
C3_RetriesUntilSuccess ==
  (At("pd_done") /\ Len(Top.errs) <= 2 /\ AllRetryable(Top.errs)) =>
    /\ Top.ret
    /\ Top.reqs = Len(Top.errs) + 1
    /\ FileState(Top.target) = [exists |-> TRUE, bytes |-> Body]

\* C4: a content fetch all of whose attempts failed with a retryable error
\* has made exactly 3 attempts when it returns failure, and leaves no file
\* at the destination.
C4_ThreeAttemptsThenFailure ==
  (At("pd_done") /\ ~Top.ret /\ Top.errs # <<>> /\ AllRetryable(Top.errs)
     /\ ~Top.pre.exists) =>
    /\ Top.reqs = 3
    /\ ~IsFile(Top.target)

\* a non-retryable HTTP failure of the content request
NonRetryableHttp(e) == e.kind = "http" /\ ~is_retryable_http_error(TRUE, e.status)

\* C5: a content fetch whose request met a non-retryable HTTP failure (401)
\* has issued exactly 1 request, returns failure at once, and has written
\* nothing: the destination is as it was before the fetch (absent when it
\* was absent) and no temporary file exists.
C5_NonRetryableFailsAtOnce ==
  \A k \in DOMAIN stack :
    LET f == stack[k] IN
    (InFetch(f) /\ f.errs # <<>> /\ NonRetryableHttp(f.errs[1])) =>
      /\ f.pc = "pd_done"
      /\ ~f.ret
      /\ f.reqs = 1
      /\ Len(f.errs) = 1
      /\ FileState(f.target) = f.pre
      /\ ~IsFile(TmpPath(f.target))

C5_Witness ==
  /\ At("pd_done")
  /\ Top.errs = <<HttpError(401)>>
  /\ ~Top.ret
  /\ ~Top.pre.exists

\* C6: the retry predicate is true for the statuses 404, 429, 500, 502, 503,
\* 504, false for 400, 401, 403, 405, 422, and false for an HTTP error that
\* carries no response.
C6_RetryablePredicate ==
  pol.pc = "applied" =>
    /\ (pol.hasResponse /\ pol.status \in {404, 429, 500, 502, 503, 504}) => pol.retryable
    /\ (pol.hasResponse /\ pol.status \in {400, 401, 403, 405, 422}) => ~pol.retryable
    /\ ~pol.hasResponse => ~pol.retryable

C6_Witness ==
  /\ pol.pc = "applied"
  /\ pol.hasResponse
  /\ pol.status = 404
  /\ pol.retryable

RECURSIVE Doubled(_)
\* 1 doubled n times
Doubled(n) == IF n = 0 THEN 1 ELSE Doubled(n - 1) + Doubled(n - 1)

\* C7: the delay for attempt n is 2^n seconds (1, 2, 4, ...), and 2^(n+1)
\* when the failing status is 429 (2, 4, 8 for n = 0, 1, 2).
C7_RetryDelay ==
  pol.pc = "applied" =>
    pol.delay = IF pol.status = 429 THEN Doubled(pol.attempt + 1)
                                    ELSE Doubled(pol.attempt)

C7_Witness ==
  /\ pol.pc = "applied"
  /\ pol.attempt = 2
  /\ pol.status = 429
  /\ pol.delay = 8

\* C8: one top-level invocation calls the credential provider at most once,
\* and every request carries that one token.
C8_TokenFetchedOnce ==
  /\ tokenCalls <= 1
  /\ Cardinality(reqTokens) <= 1

IsDirectoryReturn(f) == f.pc = "ret" /\ f.info.kind = "list"

\* C9: a directory download returns success if and only if the local
\* directory was created and every entry of the listing was downloaded
\* successfully.
C9_DirectorySuccessIffAll ==
  \A k \in DOMAIN stack :
    LET f == stack[k] IN
    IsDirectoryReturn(f) =>
      (f.ret <=> (IsDir(f.target)
                    /\ \A i \in DOMAIN f.info.entries : f.outcomes[i] = "ok"))

C9_Witness ==
  /\ At("ret")
  /\ Top.info.kind = "list"
  /\ Top.outcomes = <<"ok", "fail">>
  /\ ~Top.ret

\* C10: the failure of one entry never stops the loop: when a directory
\* download returns after its directory was created, every entry of the
\* listing has been taken exactly once, and every entry that names a path
\* has had exactly one download attempt, whatever its siblings returned.
C10_NoShortCircuit ==
  \A k \in DOMAIN stack :
    LET f == stack[k] IN
    f.info.kind = "list" =>
      /\ \A i \in DOMAIN f.info.entries : f.visits[i] <= 1 /\ f.attempts[i] <= 1
      /\ (f.pc = "ret" /\ IsDir(f.target)) =>
           \A i \in DOMAIN f.info.entries :
             /\ f.visits[i] = 1
             /\ f.outcomes[i] # "none"
             /\ WellFormed(f.info.entries[i]) => f.attempts[i] = 1

C10_Witness ==
  /\ At("ret")
  /\ Top.info.kind = "list"
  /\ Len(Top.outcomes) = 2
  /\ Top.outcomes[1] = "fail"
  /\ Top.attempts = <<1, 1>>
  /\ Top.outcomes[2] = "ok"

\* both items of a listing of two are well-formed file items
TwoFiles(f) ==
  /\ f.info.kind = "list"
  /\ Len(f.info.entries) = 2
  /\ \A i \in 1..2 : WellFormed(f.info.entries[i]) /\ f.info.entries[i].type = "file"

\* the child for item i issued its content request and returned failure
FetchFailed(f, i) == f.outcomes[i] = "fail" /\ f.fetches[i] >= 1

\* C11: when the download of a directory of two files returns, the content
\* fetch of one file having failed and the other file having succeeded, the
\* directory returns failure and the file that succeeded is at
\* <directory>/<name> with exactly the response body, whichever of the two
\* the listing names first.
C11_PartialDirectory ==
  \A k \in DOMAIN stack :
    LET f == stack[k] IN
    (f.pc = "ret" /\ TwoFiles(f)) =>
      \A i, j \in 1..2 :
        (FetchFailed(f, i) /\ f.outcomes[j] = "ok") =>
          /\ ~f.ret
          /\ FileState(f.target \o <<f.info.entries[j].name>>)
               = [exists |-> TRUE, bytes |-> Body]

\* the failing file is listed first
C11_Witness ==
  /\ At("ret")
  /\ TwoFiles(Top)
  /\ FetchFailed(Top, 1)
  /\ Top.outcomes[2] = "ok"
  /\ ~Top.ret
  /\ FileState(Top.target \o <<"b.x">>) = [exists |-> TRUE, bytes |-> Body]

\* the failing file is listed second
C11_WitnessLast ==
  /\ At("ret")
  /\ TwoFiles(Top)
  /\ FetchFailed(Top, 2)
  /\ Top.outcomes[1] = "ok"
  /\ FileState(Top.target \o <<"a">>) = [exists |-> TRUE, bytes |-> Body]

\* frame f is inside the download of the item at its loop index, child being
\* the call made for that item: every earlier item of the listing is
\* complete and no later item has been touched
ProcessingItem(f, child) ==
  /\ f.info.kind = "list"
  /\ f.pc = "call"
  /\ f.idx \in DOMAIN f.info.entries
  /\ child.path = f.info.entries[f.idx].path
  /\ \A j \in DOMAIN f.info.entries :
       /\ j < f.idx => f.outcomes[j] # "none" /\ f.visits[j] = 1
       /\ j > f.idx => f.outcomes[j] = "none" /\ f.visits[j] = 0

\* C12: whenever a request is issued, every directory on the call stack is
\* inside the download of exactly one item, the one the listing names at the
\* loop index: all items before it have completed (with their descendants)
\* and none after it has been started; items are taken in listing order.
C12_ListingOrder ==
  [][requests' # requests =>
       \A k \in 1..(Len(stack) - 1) : ProcessingItem(stack[k], stack[k + 1])]_vars

\* the content request of the second item is about to be issued, the first
\* item having made its own content request and returned
C12_Witness ==
  /\ At("pd_get")
  /\ Len(stack) = 2
  /\ stack[1].idx = 2
  /\ stack[1].fetches[1] = 1
  /\ stack[1].outcomes[1] # "none"

\* C13: the local destination of the call made for a listing item (the file
\* path of a file item, the directory of a directory item) is the local
\* directory of the listing joined with the item's name, whatever the names.
C13_MirrorsTree ==
  \A k \in 1..(Len(stack) - 1) :
    LET f == stack[k]
        child == stack[k + 1]
    IN (f.info.kind = "list" /\ child.target # <<>>) =>
         child.target = f.target \o <<Name(child.path)>>

\* the metadata fetch of frame f is over
MetadataDone(f) == f.pc \notin {"token", "meta"} /\ f.mreqs > 0

\* the retryable failures the metadata tests script
MetadataRetryCase(e) == e.kind = "connection" \/ e = HttpError(404)

\* C14: a metadata fetch that met only connection errors or 404 answers, at
\* most 2 of them, ends with a successful request: it has the descriptor
\* (file object or listing) and has issued failures + 1 requests.
C14_MetadataRetries ==
  \A k \in DOMAIN stack :
    LET f == stack[k] IN
    (MetadataDone(f) /\ f.merrs # <<>> /\ Len(f.merrs) <= 2
       /\ \A i \in DOMAIN f.merrs : MetadataRetryCase(f.merrs[i])) =>
      /\ f.info # NoInfo
      /\ f.mreqs = Len(f.merrs) + 1

\* a failure of the metadata request that the backoff policy does not retry
MetadataFatal(e) ==
  \/ e.kind = "other"
  \/ e.kind = "http" /\ ~is_retryable_http_error(TRUE, e.status)

\* C15: a metadata fetch whose request met a non-retryable failure (403, or a
\* request error that is neither HTTP, connection nor timeout) has issued
\* exactly one request, has called the error handler exactly once, and
\* download_file returns False (it returns; nothing is raised).
C15_MetadataFatalOnce ==
  \A k \in DOMAIN stack :
    LET f == stack[k] IN
    (f.merrs # <<>> /\ MetadataFatal(f.merrs[1])) =>
      /\ f.pc = "ret"
      /\ ~f.ret
      /\ f.mreqs = 1
      /\ f.reported = 1
      /\ Len(f.merrs) = 1
      /\ f.info = NoInfo

C15_Witness ==
  /\ At("ret")
  /\ Top.merrs = <<HttpError(403)>>
  /\ Top.mreqs = 1
  /\ Top.reported = 1
  /\ ~Top.ret

\* the same for a request error that is not an HTTP error
C15_WitnessOther ==
  /\ At("ret")
  /\ Top.merrs = <<[kind |-> "other", status |-> 0]>>
  /\ Top.reported = 1
  /\ ~Top.ret

\* C16: a content fetch whose first request was answered 404 and which met
\* no other failure returns success after exactly 2 requests, the
\* destination holding the body of the successful response.
C16_RetriesOn404 ==
  (At("pd_done") /\ Top.errs = <<HttpError(404)>>) =>
    /\ Top.ret
    /\ Top.reqs = 2
    /\ FileState(Top.target) = [exists |-> TRUE, bytes |-> Body]

TestedMaxRetries == {0, 2}

\* every request of the fetch failed, each with a retryable error
EveryAttemptFailed(f) ==
  /\ f.errs # <<>>
  /\ Len(f.errs) = f.reqs
  /\ AllRetryable(f.errs)

\* C18: for every max_retries = N a caller passes, a content fetch whose
\* every attempt failed with a retryable error has made exactly N + 1
\* requests when it returns failure (1 request for N = 0, 3 for N = 2).
C18_RequestsPerMaxRetries ==
  \A N \in TestedMaxRetries :
    (At("pd_done") /\ ~Top.ret /\ EveryAttemptFailed(Top)) => Top.reqs = N + 1

\* the blob transfer has answered a response whose encoding is not "base64"
OtherEncoding(f) == f.got /\ f.encoding # "base64"

\* C19: on the blob path, a transfer that returns success was given
\* encoding "base64" and has put exactly the bytes of the blob (the decoded
\* content) at the destination, and a base64 response whose write met no
\* I/O error does return success; a response with any other encoding makes
\* the transfer return failure with no further request, the destination
\* left as it was (no file where none was) and no temporary file.
C19_BlobDecoding ==
  \A k \in DOMAIN stack :
    LET f == stack[k] IN
    /\ (f.pc = "bl_done" /\ f.ret) =>
         /\ f.encoding = "base64"
         /\ FileState(f.target) = [exists |-> TRUE, bytes |-> f.blob]
         /\ ~IsFile(TmpPath(f.target))
    /\ (f.pc = "bl_done" /\ f.got /\ f.encoding = "base64"
          /\ \A i \in DOMAIN f.errs : f.errs[i] # IoFailure) => f.ret
    /\ OtherEncoding(f) =>
         /\ f.pc \in {"bl_decode", "bl_done"}
         /\ ~f.ret
         /\ f.reqs = Len(f.errs) + 1
         /\ FileState(f.target) = f.pre
         /\ ~IsFile(TmpPath(f.target))

\* a blob of two base64 groups, the second one padded, decoded and written
C19_Witness ==
  /\ At("bl_done")
  /\ Top.ret
  /\ Top.encoding = "base64"
  /\ Len(Top.blob) = 4
  /\ Len(Top.content) = 8
  /\ FileState(Top.target) = [exists |-> TRUE, bytes |-> Top.blob]

\* encoding "utf-8": failure, nothing written
C19_WitnessEncoding ==
  /\ At("bl_done")
  /\ OtherEncoding(Top)
  /\ Top.errs = <<>>
  /\ Top.reqs = 1
  /\ ~Top.ret
  /\ ~Top.pre.exists
  /\ ~IsFile(Top.target)

\* the failures of the requests of a blob transfer
RequestErrors(f) == SelectSeq(f.errs, LAMBDA e : e # IoFailure)

C20_WitnessCap ==
  /\ At("bl_done")
  /\ Len(Top.errs) = 3
  /\ AllRetryable(Top.errs)
  /\ Top.reqs = 3
  /\ ~Top.ret

\* the local file system is as the top-level call found it
NothingCreated ==
  /\ dirs \subseteq {<<>>, cli.out}
  /\ DOMAIN files \subseteq {cli.out}
  /\ \A q \in DOMAIN files : files[q] = OldBytes

\* C21: a metadata answer that is neither a file object nor a list (a
\* symlink or submodule descriptor) makes download_file return False at
\* once: the one metadata request is the only request, it is not repeated,
\* and no directory or file has been created.
C21_UnexpectedTypeFails ==
  (Len(stack) >= 1 /\ stack[1].info.kind = "other") =>
    /\ Len(stack) = 1
    /\ Top.pc = "ret"
    /\ ~Top.ret
    /\ Top.mreqs = 1
    /\ Top.reqs = 0
    /\ requests = 1
    /\ NothingCreated
    /\ done => ~result

C21_Witness ==
  /\ done
  /\ ~result
  /\ Top.info.kind = "other"
  /\ requests = 1
  /\ dirs = {<<>>}
  /\ files = <<>>

\* the credential provider gave frame f no token
NoTokenFor(f) == f.tcalls > 0 /\ f.token = NoToken

\* C22: a download_file call that obtains no token returns False having
\* asked the credential provider exactly once and sent no request of its
\* own; when it is the top-level call, the invocation has made no network
\* request and has created no file or directory.
C22_NoTokenAborts ==
  \A k \in DOMAIN stack :
    LET f == stack[k] IN
    NoTokenFor(f) =>
      /\ f.pc = "ret"
      /\ ~f.ret
      /\ f.tcalls = 1
      /\ f.mreqs = 0
      /\ f.reqs = 0
      /\ f.target = <<>>
      /\ k = 1 => tokenCalls = 1 /\ requests = 0 /\ NothingCreated

C22_Witness ==
  /\ done
  /\ ~result
  /\ NoTokenFor(Top)
  /\ tokenCalls = 1
  /\ requests = 0
  /\ files = <<>>

\* C23: the command exits with code 0 exactly when download_file was called
\* and returned True, and with code 1 otherwise: when download_file
\* returned False (a directory of which only some entries failed included)
\* and when the output directory could not be made.
C23_ExitCode ==
  cli.pc = "exit" =>
    /\ cli.code \in {0, 1}
    /\ cli.code = 0 <=> (done /\ result)
    /\ (Len(stack) > 0 /\ Top.info.kind = "list"
          /\ \E i \in DOMAIN Top.outcomes : Top.outcomes[i] # "ok") => cli.code = 1

\* a directory with one entry downloaded and one failed: exit code 1
C23_Witness ==
  /\ cli.pc = "exit"
  /\ cli.code = 1
  /\ done
  /\ Top.info.kind = "list"
  /\ Top.outcomes = <<"ok", "fail">>

C23_WitnessSuccess ==
  /\ cli.pc = "exit"
  /\ cli.code = 0
  /\ done
  /\ result

\* ---- the gh command sequence
Ran_cmds == {auth.cmds[i] : i \in 1..Len(auth.cmds)}
\* the login command ran to its end and every status check after it
\* reported a logged-in account
LoginVerified ==
  \E i \in 1..Len(auth.cmds) :
    /\ auth.cmds[i] = GhLogin
    /\ auth.outs[i] \in {"ok", "nonzero"}
    /\ \A j \in (i + 1)..Len(auth.cmds) :
         auth.cmds[j] = GhStatus => auth.outs[j] = "logged_in"
AcceptedLogin == auth.pc = "done" /\ auth.asked = <<TRUE>> /\ LoginVerified

\* C24: a user who is not logged in and accepts the prompt makes the provider
\* run gh --version, gh auth status, gh auth login, gh auth status, gh auth
\* status, gh auth token, in this order, and the token that the last command
\* printed is what the provider returns.
C24_LoginSequence ==
  AcceptedLogin =>
    /\ auth.cmds = <<GhVersion, GhStatus, GhLogin, GhStatus, GhStatus, GhToken>>
    /\ ~check_gh_auth_status(auth.outs[2])
    /\ auth.outs[6] = "ok" => (~auth.isNone /\ auth.ret = auth.printed)

C24_Witness ==
  AcceptedLogin /\ auth.outs[6] = "ok" /\ ~auth.isNone /\ auth.ret = <<"a", "b">>

\* C25: a user who is not logged in and declines the prompt gets None, and
\* neither gh auth login nor gh auth token is run.
C25_DeclineStops ==
  (auth.asked # <<>> /\ ~auth.asked[1]) =>
    /\ auth.pc = "done"
    /\ auth.isNone
    /\ ~auth.raised
    /\ GhLogin \notin Ran_cmds
    /\ GhToken \notin Ran_cmds

C25_Witness ==
  /\ auth.pc = "done"
  /\ auth.asked = <<FALSE>>
  /\ auth.isNone
  /\ auth.cmds = <<GhVersion, GhStatus>>

\* ---- the requests of one file
SingleFileDone ==
  /\ done
  /\ result
  /\ Len(stack) = 1
  /\ Top.info.kind = "file"

C27_OwnAttemptBudget ==
  \A k \in DOMAIN stack :
    LET f == stack[k] IN
    /\ f.pc = "token" => (f.mreqs = 0 /\ f.reqs = 0)
    /\ f.pc \in {"file_mkdir", "pd_mkdir"} => f.reqs = 0
    /\ (f.pc = "pd_done" /\ ~f.ret /\ f.reqs > 0 /\ AllRetryable(f.errs)) =>
         f.reqs = MaxTransferAttempts

\* an attempt of the fetch f broke off after it had written some bytes
FailedMidStream(f) ==
  /\ InFetch(f)
  /\ f.errs # <<>>
  /\ f.errs[Len(f.errs)] = StreamFailure
  /\ f.written > 0

\* C28: once an attempt has failed in mid-stream, the bytes it wrote are
\* discarded: outside of a running attempt neither the destination nor the
\* temporary file holds the partial bytes, and a fetch that then succeeds
\* leaves exactly the body of the successful response at the destination.
C28_PartialDiscarded ==
  \A k \in DOMAIN stack :
    LET f == stack[k] IN
    FailedMidStream(f) =>
      /\ f.pc # "pd_write" =>
           /\ ~IsFile(TmpPath(f.target))
           /\ FileState(f.target) \in {f.pre, Absent, [exists |-> TRUE, bytes |-> Body]}
      /\ (f.pc = "pd_done" /\ f.ret) =>
           FileState(f.target) = [exists |-> TRUE, bytes |-> Body]

\* ---- the pauses of one transfer
\* failures of the content fetch f after which another attempt is allowed
RetriedFailures(f) ==
  {i \in DOMAIN f.errs : Retryable(f.errs[i]) /\ i < MaxTransferAttempts}

\* C29: in a content fetch every retryable failure that is not the last
\* allowed attempt is followed by exactly one pause, of the policy's delay
\* for the index and status of the failed attempt, and there is no other
\* pause: none after a success, after a non-retryable failure or after the
\* last allowed attempt.
C29_OneSleepPerRetry ==
  \A k \in DOMAIN stack :
    LET f == stack[k] IN
    (InFetch(f) /\ f.pc # "pd_get") =>
      /\ DOMAIN f.slept = RetriedFailures(f)
      /\ \A i \in DOMAIN f.slept : f.slept[i] = retry_delay(i - 1, f.errs[i].status)

\* ---- local I/O errors
\* the content fetch f met an OSError (mkdir, open or write)
FailedLocally(f) == InFetch(f) /\ f.errs # <<>> /\ f.errs[Len(f.errs)] = IoFailure

\* C30: a local I/O error ends the fetch at once with failure as its return
\* value: no request follows it, and neither a partial file at the
\* destination nor a temporary file is left behind.
C30_LocalErrorFatal ==
  \A k \in DOMAIN stack :
    LET f == stack[k] IN
    FailedLocally(f) =>
      /\ f.pc = "pd_done"
      /\ ~f.ret
      /\ Len(f.errs) = 1
      /\ f.reqs <= 1
      /\ ~IsFile(TmpPath(f.target))
      /\ FileState(f.target) \in {f.pre, Absent}

\* ---- directories before transfers
\* p and every directory above it exist
DirChain(p) == Prefixes(p) \subseteq dirs

\* C31: a content request is issued only when the parent directory of its
\* destination exists with all intermediate directories, and an entry of a
\* listing is processed (skipped, or handed to a recursive call) only when
\* the local directory exists; hence a failed directory creation is followed
\* by no content request and no child request.
C31_DirectoryFirst ==
  \A k \in DOMAIN stack :
    LET f == stack[k] IN
    /\ (f.pc = "pd_get" \/ f.reqs > 0) => DirChain(Parent(f.target))
    /\ (f.pc \in {"loop", "call"} \/ k < Len(stack)) => DirChain(f.target)
    /\ (f.info.kind = "list" /\ ~DirChain(f.target)) =>
         /\ f.pc \in {"dir_mkdir", "ret"}
         /\ \A i \in DOMAIN f.visits : f.visits[i] = 0

\* a file of a listing is about to be requested into a directory that the
\* invocation created
C31_Witness ==
  /\ At("pd_get")
  /\ Len(stack) = 2
  /\ Top.reqs = 0
  /\ Len(Parent(Top.target)) = 2
  /\ DirChain(Parent(Top.target))

\* the directory could not be created: the listing is left untouched
C31_WitnessFailed ==
  /\ At("ret")
  /\ Top.info.kind = "list"
  /\ Len(Top.info.entries) = 2
  /\ ~DirChain(Top.target)
  /\ ~Top.ret
  /\ Top.visits = <<0, 0>>
  /\ requests = 1

\* ---- a file without download_url
\* C32: for a file descriptor download_file returns what the content
\* transfer returned, and a descriptor without a usable download_url is
\* fetched through the blob path: the call does not return before a request
\* after the metadata request has been issued.
C32_FallbackToBlob ==
  \A k \in DOMAIN stack :
    LET f == stack[k] IN
    (f.pc = "ret" /\ f.info.kind = "file") =>
      /\ f.reqs > 0 => (f.ret <=> (f.errs = <<>>))
      /\ ~f.info.url => Len(f.sent) >= 2

\* ---- HTTP sessions
\* C33: when the invocation has returned no session is open, whatever the
\* exit path, and the invocation has opened at most one session, which
\* served all its requests.
C33_OneSessionClosed ==
  done =>
    /\ \A k \in DOMAIN stack : stack[k].open = 0
    /\ stack[1].opened <= 1

\* ---- termination
\* every transfer and every listed entry is used at most once
ConsumedOnce ==
  \A k \in DOMAIN stack :
    LET f == stack[k] IN
    /\ f.tcalls <= 1
    /\ f.mreqs <= 1
    /\ f.reqs <= 1
    /\ (f.token # NoToken /\ f.pc # "meta") => f.mreqs = 1
    /\ \A i \in DOMAIN f.visits : f.visits[i] <= 1 /\ f.attempts[i] <= f.visits[i]
    /\ (f.pc = "ret" /\ f.info.kind = "list" /\ DirChain(f.target)) =>
         \A i \in DOMAIN f.visits : f.visits[i] = 1

\* steps one call of download_file can still take by itself, from its first
RankOfCall == MaxChunks + 9
\* steps one listed entry can cost its directory: the call and its return
RankOfEntry == RankOfCall + 1

\* steps the frame f can still take, the calls it has not made yet included
FrameRank(f) ==
  LET left == Len(f.info.entries) - f.idx + 1 IN
  CASE f.pc = "token" -> RankOfCall
    [] f.pc = "meta" -> MaxChunks + 8
    [] f.pc = "file_mkdir" -> MaxChunks + 7
    [] f.pc = "pd_mkdir" -> MaxChunks + 6
    [] f.pc = "pd_get" -> MaxChunks + 5
    [] f.pc = "pd_open" -> MaxChunks + 4
    [] f.pc = "pd_write" -> (MaxChunks - f.written) + 3
    [] f.pc = "pd_done" -> 2
    [] f.pc = "dir_mkdir" -> left * RankOfEntry + 3
    [] f.pc = "loop" -> left * RankOfEntry + 2
    [] f.pc = "call" -> (left - 1) * RankOfEntry + 2
    [] OTHER -> 1

RECURSIVE StackRank(_)
StackRank(k) == IF k = 0 THEN 0 ELSE FrameRank(stack[k]) + StackRank(k - 1)

\* an upper bound of the steps left to the invocation: the entries that the
\* repository may still list, the steps of the frames, the return and exit
Rank ==
  RankOfEntry * ((MaxNodes - nodes) + (MaxFaults - faults))
    + StackRank(Len(stack))
    + (IF done THEN 0 ELSE 1)
    + (CASE cli.pc = "start" -> RankOfCall + 2 [] cli.pc = "call" -> 1 [] OTHER -> 0)

\* C34: a top-level download of a finite tree terminates whatever the
\* requests answer: every step lowers a bound of the steps that are left and
\* the only state without a next step is the exit.  Every transfer ends
\* after a bounded number of attempts, and the metadata of every node that
\* is reached with a token is requested exactly once: no entry and no
\* request is taken up a second time.
C34_Terminates ==
  /\ []ConsumedOnce
  /\ [][Rank' < Rank]_vars
  /\ [](cli.pc # "exit" => ENABLED Next)

\* a directory with a sub-directory has been gone through to the end
C34_Witness ==
  /\ cli.pc = "exit"
  /\ done
  /\ stack[1].info.kind = "list"
  /\ Len(stack[1].info.entries) = 2
  /\ stack[1].visits = <<1, 1>>
  /\ requests >= 4
  /\ faults > 0

\* ---- the token command
\* C35: gh auth token is run only right after a gh auth status that reported
\* a logged-in account; a user who accepted the prompt and is still not
\* authenticated after the login attempt (the login command failed, or a
\* status check after it did not report a logged-in account) gets None and
\* gh auth token is not run.
C35_TokenOnlyWhenLoggedIn ==
  /\ \A i \in DOMAIN auth.cmds :
       auth.cmds[i] = GhToken =>
         /\ i > 1
         /\ auth.cmds[i - 1] = GhStatus
         /\ check_gh_auth_status(auth.outs[i - 1])
  /\ (auth.pc = "done" /\ auth.asked = <<TRUE>> /\ ~LoginVerified) =>
       /\ auth.isNone
       /\ GhToken \notin Ran_cmds

\* the login helper reported success, the re-check did not
C35_Witness ==
  /\ auth.pc = "done"
  /\ auth.asked = <<TRUE>>
  /\ auth.cmds = <<GhVersion, GhStatus, GhLogin, GhStatus, GhStatus>>
  /\ auth.outs[4] = "logged_in"
  /\ auth.outs[5] = "not_logged_in"
  /\ auth.isNone

\* the login command failed
C35_WitnessLoginFailed ==
  /\ auth.pc = "done"
  /\ auth.asked = <<TRUE>>
  /\ auth.cmds = <<GhVersion, GhStatus, GhLogin>>
  /\ auth.outs[3] = "oserror"
  /\ auth.isNone

\* C36: whatever the external commands do (missing, non-zero exit, OSError,
\* unexpected exception), get_github_token_from_gh_cli returns a token or
\* None: no exception reaches its caller.
C36_NoExceptionEscapes ==
  /\ ~auth.raised
  /\ auth.pc = "done" => (auth.isNone \/ auth.ret = auth.printed)

\* ---- a file that was there before
\* C37: a content fetch that fails leaves a file that was at the destination
\* before the fetch with the bytes it had.
C37_ExistingFileKept ==
  \A k \in DOMAIN stack :
    LET f == stack[k] IN
    (f.pc = "pd_done" /\ ~f.ret /\ f.pre.exists) => FileState(f.target) = f.pre

\* ---- listing items with a missing field
MissingField(item) == item.name = "" \/ item.type = "" \/ item.path = <<>>

\* C38: a listing item without name, type or path is skipped: no
\* download_file call is made for it, so no request is issued for it; once
\* it has been taken the directory's result is failure; and the items after
\* it are processed all the same.
C38_MalformedEntrySkipped ==
  \A k \in DOMAIN stack :
    LET f == stack[k] IN
    f.info.kind = "list" =>
      /\ \A i \in DOMAIN f.info.entries :
           MissingField(f.info.entries[i]) =>
             /\ f.attempts[i] = 0
             /\ f.fetches[i] = 0
             /\ f.outcomes[i] \in {"none", "skipped"}
             /\ ~(f.pc = "call" /\ f.idx = i)
             /\ f.visits[i] = 1 => (f.outcomes[i] = "skipped" /\ ~f.all_success)
      /\ (f.pc = "ret" /\ DirChain(f.target)) =>
           /\ \A i \in DOMAIN f.info.entries : f.visits[i] = 1
           /\ (\E i \in DOMAIN f.info.entries : MissingField(f.info.entries[i])) => ~f.ret

\* an item without path is followed by a file, which is downloaded
C38_Witness ==
  /\ At("ret")
  /\ Len(stack) = 1
  /\ Top.info.kind = "list"
  /\ Len(Top.info.entries) = 2
  /\ Top.info.entries[1].path = <<>>
  /\ Top.outcomes = <<"skipped", "ok">>
  /\ ~Top.ret
  /\ requests = 3
  /\ FileState(Top.target \o <<Top.info.entries[2].name>>) = [exists |-> TRUE, bytes |-> Body]

====
